---- MODULE Spec2Model ----
(***************************************************************************)
(* Model of the Outlook MCP client wrapper (class OutlookMCPClient of     *)
(* src/scripts/cli.ts): the session / transport guard (connect,           *)
(* doConnect, checkAuth, disconnect), the tool-call facade (callTool,     *)
(* listTools, isAuthError) and the cached domain facade (read-through     *)
(* reads, invalidating writes).                                           *)
(*                                                                         *)
(* The specifications share the state:                                     *)
(*   Spec          the session guard and the tool-call facade, with every  *)
(*                 await of the code an interleaving point;                *)
(*   SpecListTools the same with listTools among the callers;              *)
(*   SpecReuse     the callers with the auth-exempt flag set and cleared   *)
(*                 between invocations;                                    *)
(*   SpecCli       one command of the CLI on a fresh client;               *)
(*   SpecClassify  isAuthError over error texts;                           *)
(*   SpecUnwrap    callTool's reading of a response envelope;              *)
(*   SpecCache     the reads of the domain facade as time passes, one      *)
(*                 callTool being a request in flight that the server      *)
(*                 answers or that fails;                                  *)
(*   SpecSwitch    the reads with the cache switched off and on;           *)
(*   SpecWrites    the reads interleaved with the invalidating writes;     *)
(*   SpecThrough   the reads over the session guard, their producer being  *)
(*                 an invocation of callTool.                              *)
(***************************************************************************)
EXTENDS Naturals, Sequences, FiniteSets, Bags, TLC

VARIABLES
    client,          \* this.client: 0 is null, else the id of the Client object
    transport,       \* this.transport: 0 is null, else the id of the transport
    connected,       \* this.connected
    connectPromise,  \* this.connectPromise: 0 is null, else the attempt it belongs to
    skipAuthCheck,   \* this.skipAuthCheck
    attempts,        \* the executions of doConnect, in order of creation
    chan,            \* the channel (subprocess + handshake) of each Client object
    calls,           \* the invocations of connect / callTool / listTools /
                     \* disconnect that have not returned yet (a bag)
    nCalls,          \* number of invocations so far
    event,           \* what the last step did for a caller: the call it started,
                     \* the result it returned, the preflight answer it read
    serverAuth,      \* whether the external server holds a valid token
    cacheDisabled,   \* this.cacheDisabled (set together with the cache's own switch)
    cache,           \* the entries of the PluginCache instance, by key
    ops,             \* the reads and writes of the domain facade whose callTool
                     \* is in flight (a bag)
    nOps,            \* number of reads and writes invoked so far
    serverVersion,   \* number of writes the server has applied
    now,             \* the clock, in units of five minutes
    ticks            \* number of clock advances so far

sessionVars == <<client, transport, connected, connectPromise, skipAuthCheck,
                 attempts, chan, calls, nCalls, event, serverAuth>>
connVars == <<client, transport, connected, connectPromise, skipAuthCheck,
              attempts, chan, calls, nCalls, serverAuth>>
cacheVars == <<cacheDisabled, cache, ops, nOps, serverVersion, now, ticks>>
vars == <<client, transport, connected, connectPromise, skipAuthCheck,
          attempts, chan, calls, nCalls, event, serverAuth,
          cacheDisabled, cache, ops, nOps, serverVersion, now, ticks>>

(***************************************************************************)
(* Bounds of the model.                                                    *)
(***************************************************************************)
MaxCalls == 4
MaxOps == 3
MaxReads == 2
MaxTicks == 1
MaxItems == 2

(***************************************************************************)
(* Strings.  Strings support Len, SubSeq and \o, so the code's             *)
(* String.prototype.includes and toLowerCase are computed on the text.     *)
(***************************************************************************)
Includes(s, t) ==
    \E i \in 1..(Len(s) + 1) :
        /\ i + Len(t) - 1 <= Len(s)
        /\ SubSeq(s, i, i + Len(t) - 1) = t

StartsWith(s, t) == Len(t) <= Len(s) /\ SubSeq(s, 1, Len(t)) = t

LowerChar(c) ==
    CASE c = "A" -> "a" [] c = "B" -> "b" [] c = "C" -> "c" [] c = "D" -> "d"
      [] c = "E" -> "e" [] c = "F" -> "f" [] c = "G" -> "g" [] c = "H" -> "h"
      [] c = "I" -> "i" [] c = "J" -> "j" [] c = "K" -> "k" [] c = "L" -> "l"
      [] c = "M" -> "m" [] c = "N" -> "n" [] c = "O" -> "o" [] c = "P" -> "p"
      [] c = "Q" -> "q" [] c = "R" -> "r" [] c = "S" -> "s" [] c = "T" -> "t"
      [] c = "U" -> "u" [] c = "V" -> "v" [] c = "W" -> "w" [] c = "X" -> "x"
      [] c = "Y" -> "y" [] c = "Z" -> "z" [] OTHER -> c

RECURSIVE ToLowerCase(_)
ToLowerCase(s) ==
    IF s = "" THEN ""
    ELSE LowerChar(SubSeq(s, 1, 1)) \o ToLowerCase(SubSeq(s, 2, Len(s)))

(***************************************************************************)
(* isAuthError: case-insensitive substring match over a fixed vocabulary.  *)
(***************************************************************************)
AuthVocabulary ==
    { "no valid token", "token expired", "unauthorized", "401", "invalid_grant",
      "interaction_required", "login required", "unauthenticated",
      "invalidauthenticationtoken", "lifetimevalidationfailed", "compacttoken",
      "authorization_identitynotfound", "silent token acquisition failed" }

\* a classifier that takes every error for an authentication failure
isAuthError_Always(text) == TRUE

\* a classifier that compares the text as it is
isAuthError_CaseSensitive(text) == \E term \in AuthVocabulary : Includes(text, term)

isAuthError(text) ==
    LET lower == ToLowerCase(text)
    IN  \E term \in AuthVocabulary : Includes(lower, term)

(***************************************************************************)
(* Tool response envelopes {isError, content: [{type, text?}]}.            *)
(***************************************************************************)
TextItem(t) == [type |-> "text", text |-> t]
BareTextItem == [type |-> "text"]
ImageItem == [type |-> "image", data |-> "iVBORw0KGgo="]
Envelope(e, c) == [isError |-> e, content |-> c]

\* content.find(c => c.type === "text"): the index of the first text item, 0 if none
FindText(content) ==
    IF \E i \in 1..Len(content) : content[i].type = "text"
    THEN CHOOSE i \in 1..Len(content) :
            /\ content[i].type = "text"
            /\ \A j \in 1..(i - 1) : content[j].type # "text"
    ELSE 0

\* content.find(c => c.type === "text")?.text || dflt
FindTextOr(content, dflt) ==
    LET i == FindText(content)
    IN  IF i = 0 THEN dflt
        ELSE IF "text" \notin DOMAIN content[i] THEN dflt
        ELSE IF content[i].text = "" THEN dflt
        ELSE content[i].text

(***************************************************************************)
(* JSON.parse, on the documents the modelled server emits: the parsed      *)
(* value of each document, a SyntaxError for every other text.             *)
(***************************************************************************)
JsonDocuments ==
    ( "{\"success\":true}"              :> [success |-> TRUE] ) @@
    ( "{\"success\":false}"             :> [success |-> FALSE] ) @@
    ( "{\"authenticated\":true}"        :> [authenticated |-> TRUE] ) @@
    ( "{\"status\":\"authenticated\"}"  :> [status |-> "authenticated"] ) @@
    ( "{\"status\":\"signed_out\"}"     :> [status |-> "signed_out"] ) @@
    ( "{\"value\":[]}"                  :> [value |-> <<>>] )

JSONParse(text) ==
    IF text \in DOMAIN JsonDocuments
    THEN [ok |-> TRUE, value |-> JsonDocuments[text]]
    ELSE [ok |-> FALSE]

(***************************************************************************)
(* checkAuth's verdict on a verify-login response.                         *)
(***************************************************************************)
checkAuthJson(parsed) ==
    \/ ("success" \in DOMAIN parsed /\ parsed.success = TRUE)
    \/ ("authenticated" \in DOMAIN parsed /\ parsed.authenticated = TRUE)
    \/ ("status" \in DOMAIN parsed /\ parsed.status = "authenticated")

checkAuthPlain(text) ==
    \/ Includes(ToLowerCase(text), "authenticated")
    \/ Includes(ToLowerCase(text), "login successful")

checkAuth(result) ==
    LET text == FindTextOr(result.content, "")
        p == JSONParse(text)
    IN  IF p.ok THEN checkAuthJson(p.value) ELSE checkAuthPlain(text)

AuthRequiredPreflight ==
    "AUTHENTICATION_REQUIRED: Outlook OAuth token is expired or missing. "
    \o "Do NOT retry this operation. "
    \o "Ask the user to re-authenticate their personal Outlook account (YOUR_PERSONAL_EMAIL) "
    \o "by running the login command in a terminal with browser access."

\* a re-signalled error that carries the marker and the server's text only
AuthRequiredTool_Bare(errorText) == "AUTHENTICATION_REQUIRED: " \o errorText

AuthRequiredTool(errorText) ==
    "AUTHENTICATION_REQUIRED: " \o errorText
    \o " Do NOT retry this operation."
    \o " Ask the user to re-authenticate their personal Outlook account (YOUR_PERSONAL_EMAIL)"
    \o " by running the login command in a terminal with browser access."

(***************************************************************************)
(* callTool's reading of a response (after the request has been answered). *)
(***************************************************************************)
Thrown(msg) == [kind |-> "error", message |-> msg]
Returned(form, v) == [kind |-> "ok", form |-> form, value |-> v]
NoResult == [kind |-> "none"]

\* an error branch that raises every error as the generic one
callToolError_Unclassified(content) == Thrown(FindTextOr(content, "Tool call failed"))

callToolError(content) ==
    LET errorText == FindTextOr(content, "Tool call failed")
    IN  IF isAuthError(errorText)
        THEN Thrown(AuthRequiredTool(errorText))
        ELSE Thrown(errorText)

\* a success branch that hands the text back without parsing it
callToolValue_Unparsed(content) ==
    LET i == FindText(content)
    IN  IF i # 0 /\ "text" \in DOMAIN content[i] /\ content[i].text # ""
        THEN Returned("text", content[i].text)
        ELSE Returned("content", content)

callToolValue(content) ==
    LET i == FindText(content)
    IN  IF i # 0 /\ "text" \in DOMAIN content[i] /\ content[i].text # ""
        THEN LET p == JSONParse(content[i].text)
             IN  IF p.ok THEN Returned("json", p.value)
                 ELSE Returned("text", content[i].text)
        ELSE Returned("content", content)

callToolResult(result) ==
    IF result.isError THEN callToolError(result.content)
    ELSE callToolValue(result.content)

(***************************************************************************)
(* The external server, an opaque collaborator: what it may answer to      *)
(* verify-login and to a data tool, by whether it holds a valid token.     *)
(***************************************************************************)
VerifyLoginResponses(auth) ==
    IF auth
    THEN { Envelope(FALSE, <<TextItem("{\"success\":true}")>>),
           Envelope(FALSE, <<TextItem("Login successful")>>) }
    ELSE { Envelope(FALSE, <<TextItem("{\"success\":false}")>>),
           Envelope(TRUE,  <<TextItem("No valid token found")>>),
           Envelope(FALSE, <<TextItem("Not authenticated")>>) }

DataResponses(auth) ==
    IF auth
    THEN { Envelope(FALSE, <<TextItem("{\"value\":[]}")>>),
           Envelope(FALSE, <<TextItem("Message sent")>>),
           Envelope(FALSE, <<ImageItem>>),
           Envelope(TRUE,  <<TextItem("Mailbox not found")>>),
           Envelope(TRUE,  <<TextItem("")>>),
           Envelope(TRUE,  <<ImageItem>>) }
    ELSE { Envelope(TRUE,  <<TextItem("401 Unauthorized")>>),
           Envelope(TRUE,  <<TextItem("Graph error: InvalidAuthenticationToken")>>),
           Envelope(TRUE,  <<ImageItem, TextItem("TOKEN EXPIRED")>>),
           Envelope(TRUE,  <<TextItem("Request failed, sign in again")>>) }

ToolNames == {"list-mail-messages"}

ToolResponses(name, auth) ==
    IF name = "verify-login" THEN VerifyLoginResponses(auth) ELSE DataResponses(auth)

\* checkAuth and callToolResult over the server's responses, computed once
AllResponses ==
    VerifyLoginResponses(TRUE) \cup VerifyLoginResponses(FALSE)
    \cup DataResponses(TRUE) \cup DataResponses(FALSE)

checkAuthOf == [r \in AllResponses |-> checkAuth(r)]

callToolResultOf == [r \in AllResponses |-> callToolResult(r)]

ToolList == <<[name |-> "verify-login"], [name |-> "list-mail-messages"]>>

\* errors raised by the MCP SDK's transport, not by this client
ErrSpawn == "spawn ENOENT"
ErrClosed == "Connection closed"
ErrNotConnected == "Not connected"

(***************************************************************************)
(* Session guard.                                                          *)
(***************************************************************************)
Attempts == 1..Len(attempts)
Calls == BagToSet(calls)

Pending(a) == attempts[a].st \in {"handshake", "preflight"}
Settled(a) == attempts[a].st \in {"resolved", "rejected"}


\* one execution of doConnect: where it stands, the error it rejected with, the
\* Client object its verify-login went to, and what the server was when it answered
NewAttempt ==
    [st |-> "handshake", err |-> "", preflightOn |-> 0, verified |-> "none"]

\* one invocation: the promise of connect() it awaits, the Client object its
\* request went to, and the number of requests it has sent
NewCall(op, name, pc, promise) ==
    [op |-> op, name |-> name, pc |-> pc, promise |-> promise, sentOn |-> 0,
     requests |-> 0]

NoEvent == [ev |-> "none"]

\* an invocation started: the promise connect() handed out, the state that promise
\* was in, and whether doConnect ran for it
CallEvent(op, promise, joinedSt, created) ==
    [ev |-> "call", op |-> op, promise |-> promise, joinedSt |-> joinedSt,
     created |-> created]

\* an invocation returned or threw; resp is the envelope it read, if it read one
ReturnEvent(c, sentOn, answered, resp, r) ==
    [ev |-> "return", op |-> c.op, name |-> c.name, promise |-> c.promise,
     sentOn |-> sentOn, answered |-> answered, resp |-> resp, result |-> r,
     requests |-> c.requests]

\* callTool / listTools handed its request to the Client object sentOn
SentEvent(c, sentOn) ==
    [ev |-> "sent", op |-> c.op, name |-> c.name, promise |-> c.promise,
     sentOn |-> sentOn]

\* checkAuth read the answer to verify-login
PreflightEvent(a, srvAuth, resp) ==
    [ev |-> "preflight", attempt |-> a, srvAuth |-> srvAuth, resp |-> resp]

NoEnvelope == Envelope(FALSE, <<>>)

\* connect(): `if (this.connectPromise) return this.connectPromise;`
\* a connect() that never looks at the pending promise
ConnectJoins_Never == FALSE

ConnectJoins == connectPromise # 0

\* a connect() without the .catch handler
ConnectPromiseAfterReject_Keep(a) == connectPromise

\* the .catch handler of connect(): `this.connectPromise = null`
ConnectPromiseAfterReject(a) == 0

\* connect(), up to the promise it returns: joins the pending attempt, or runs
\* doConnect to its first await (new transport, new Client, handshake started)
\* and stores the new promise.
connectStep(op, name) ==
    IF ConnectJoins
    THEN /\ calls' = calls (+) SetToBag({NewCall(op, name, "awaitConnect", connectPromise)})
         /\ UNCHANGED <<client, transport, connected, connectPromise, attempts, chan>>
    ELSE LET a == Len(attempts) + 1
         IN  /\ transport' = a
             /\ client' = a
             /\ chan' = Append(chan, "connecting")
             /\ attempts' = Append(attempts, NewAttempt)
             /\ connectPromise' = a
             /\ calls' = calls (+) SetToBag({NewCall(op, name, "awaitConnect", a)})
             /\ UNCHANGED connected

\* connect() as an invocation started by a caller observes it
connect(op, name) ==
    /\ connectStep(op, name)
    /\ event' = IF ConnectJoins
                THEN CallEvent(op, connectPromise, attempts[connectPromise].st, FALSE)
                ELSE CallEvent(op, Len(attempts) + 1, "handshake", TRUE)

CallConnect ==
    /\ nCalls < MaxCalls
    /\ nCalls' = nCalls + 1
    /\ connect("connect", "")
    /\ UNCHANGED <<skipAuthCheck, serverAuth>>
    /\ UNCHANGED cacheVars

CallTool ==
    /\ nCalls < MaxCalls
    /\ nCalls' = nCalls + 1
    /\ \E name \in ToolNames : connect("callTool", name)
    /\ UNCHANGED <<skipAuthCheck, serverAuth>>
    /\ UNCHANGED cacheVars

CallListTools ==
    /\ nCalls < MaxCalls
    /\ nCalls' = nCalls + 1
    /\ connect("listTools", "")
    /\ UNCHANGED <<skipAuthCheck, serverAuth>>
    /\ UNCHANGED cacheVars

\* a .catch handler that wraps the error it passes on
Rethrown_Wrapped(err) == "Connection failed: " \o err

\* the .catch handler of connect(): `throw err`
Rethrown(err) == err

\* doConnect rejects with err: the promise of connect() rejects after its
\* .catch handler has reset the marker
RejectAttempt(a, err, verified) ==
    /\ attempts' = [attempts EXCEPT ![a].st = "rejected", ![a].err = Rethrown(err),
                                    ![a].verified = verified]
    /\ connectPromise' = ConnectPromiseAfterReject(a)

\* callers resume from `await this.connect()` in the microtasks that follow the
\* settling of the promise (or the call, when the promise was settled already):
\* before any answer of the server or of the transport is delivered
Resumable(c) == c.pc = "awaitConnect" /\ Settled(c.promise)

Drained == \A c \in Calls : ~Resumable(c)

\* a doConnect that runs the preflight whatever the flag says
PreflightDue_Always == TRUE

\* `if (!this.skipAuthCheck)`
PreflightDue == ~skipAuthCheck

\* `await this.client.connect(this.transport)` resolves: doConnect continues
\* to its end (skipAuthCheck) or to checkAuth's await
HandshakeOk(a) ==
    /\ a \in Attempts
    /\ Drained
    /\ attempts[a].st = "handshake"
    /\ chan[a] = "connecting"
    /\ chan' = [chan EXCEPT ![a] = "open"]
    /\ connected' = TRUE
    /\ IF ~PreflightDue
       THEN /\ attempts' = [attempts EXCEPT ![a].st = "resolved"]
            /\ UNCHANGED connectPromise
       ELSE IF chan'[client] \in {"closed", "failed"}
       THEN RejectAttempt(a, ErrNotConnected, "none")
       ELSE /\ attempts' = [attempts EXCEPT ![a].st = "preflight",
                                            ![a].preflightOn = client]
            /\ UNCHANGED connectPromise
    /\ event' = NoEvent
    /\ UNCHANGED <<client, transport, skipAuthCheck, calls, nCalls, serverAuth>>
    /\ UNCHANGED cacheVars

\* `await this.client.connect(this.transport)` rejects
HandshakeFail(a) ==
    /\ a \in Attempts
    /\ Drained
    /\ attempts[a].st = "handshake"
    /\ chan' = [chan EXCEPT ![a] = IF chan[a] = "connecting" THEN "failed" ELSE chan[a]]
    /\ RejectAttempt(a, IF chan[a] = "connecting" THEN ErrSpawn ELSE ErrClosed, "none")
    /\ event' = NoEvent
    /\ UNCHANGED <<client, transport, connected, skipAuthCheck, calls, nCalls, serverAuth>>
    /\ UNCHANGED cacheVars

\* the verify-login call of checkAuth is answered
PreflightRespond(a) ==
    /\ a \in Attempts
    /\ Drained
    /\ attempts[a].st = "preflight"
    /\ chan[attempts[a].preflightOn] = "open"
    /\ \E r \in VerifyLoginResponses(serverAuth) :
          /\ event' = PreflightEvent(a, serverAuth, r)
          /\ IF checkAuthOf[r]
             THEN /\ attempts' = [attempts EXCEPT
                                     ![a].st = "resolved",
                                     ![a].verified = IF serverAuth THEN "auth" ELSE "unauth"]
                  /\ UNCHANGED connectPromise
             ELSE RejectAttempt(a, AuthRequiredPreflight,
                                IF serverAuth THEN "auth" ELSE "unauth")
    /\ UNCHANGED <<client, transport, connected, skipAuthCheck, chan, calls, nCalls,
                   serverAuth>>
    /\ UNCHANGED cacheVars

\* the verify-login call of checkAuth fails in the transport
PreflightFail(a) ==
    /\ a \in Attempts
    /\ Drained
    /\ attempts[a].st = "preflight"
    /\ RejectAttempt(a, ErrClosed, "none")
    /\ event' = NoEvent
    /\ UNCHANGED <<client, transport, connected, skipAuthCheck, chan, calls, nCalls,
                   serverAuth>>
    /\ UNCHANGED cacheVars

\* invocation c returns (or throws) r
Return(c, sentOn, answered, resp, r) ==
    /\ event' = ReturnEvent(c, sentOn, answered, resp, r)
    /\ calls' = calls (-) SetToBag({c})

\* a caller resumes from `await this.connect()`: connect() is over; callTool and
\* listTools send their request on this.client
ConnectReturnStep(c) ==
    /\ c \in Calls
    /\ Resumable(c)
    /\ LET a == c.promise
       IN  IF attempts[a].st = "rejected"
           THEN Return(c, 0, FALSE, NoEnvelope, Thrown(attempts[a].err))
           ELSE IF c.op = "connect"
           THEN Return(c, 0, FALSE, NoEnvelope, Returned("void", ""))
           ELSE IF chan[client] # "open"
           THEN Return(c, 0, FALSE, NoEnvelope, Thrown(ErrNotConnected))
           ELSE /\ calls' = (calls (-) SetToBag({c}))
                             (+) SetToBag({[c EXCEPT !.pc = "awaitTool",
                                                     !.sentOn = client,
                                                     !.requests = @ + 1]})
                /\ event' = SentEvent(c, client)
    /\ UNCHANGED <<client, transport, connected, connectPromise, skipAuthCheck,
                   attempts, chan, nCalls, serverAuth>>

ConnectReturn(c) ==
    /\ ConnectReturnStep(c)
    /\ UNCHANGED cacheVars

\* the server answers the request of callTool / listTools
ToolRespondStep(c) ==
    /\ c \in Calls
    /\ Drained
    /\ c.pc = "awaitTool"
    /\ chan[c.sentOn] = "open"
    /\ IF c.op = "listTools"
       THEN Return(c, c.sentOn, FALSE, NoEnvelope, Returned("tools", ToolList))
       ELSE \E r \in ToolResponses(c.name, serverAuth) :
               Return(c, c.sentOn, TRUE, r, callToolResultOf[r])
    /\ UNCHANGED <<client, transport, connected, connectPromise, skipAuthCheck,
                   attempts, chan, nCalls, serverAuth>>

ToolRespond(c) ==
    /\ ToolRespondStep(c)
    /\ UNCHANGED cacheVars

\* a client that sends the request again when the transport fails
ToolFail_Retry(c) ==
    /\ c \in Calls
    /\ c.pc = "awaitTool"
    /\ calls' = (calls (-) SetToBag({c})) (+) SetToBag({[c EXCEPT !.requests = @ + 1]})
    /\ event' = NoEvent
    /\ UNCHANGED <<client, transport, connected, connectPromise, skipAuthCheck,
                   attempts, chan, nCalls, serverAuth>>
    /\ UNCHANGED cacheVars

\* the request of callTool / listTools fails in the transport
ToolFailStep(c) ==
    /\ c \in Calls
    /\ Drained
    /\ c.pc = "awaitTool"
    /\ Return(c, c.sentOn, FALSE, NoEnvelope, Thrown(ErrClosed))
    /\ UNCHANGED <<client, transport, connected, connectPromise, skipAuthCheck,
                   attempts, chan, nCalls, serverAuth>>

ToolFail(c) ==
    /\ ToolFailStep(c)
    /\ UNCHANGED cacheVars

\* disconnect(), up to `await this.client.close()` (or to its end)
CallDisconnect ==
    /\ nCalls < MaxCalls
    /\ nCalls' = nCalls + 1
    /\ IF client # 0 /\ connected
       THEN /\ chan' = [chan EXCEPT ![client] = "closed"]
            /\ calls' = calls (+) SetToBag({[NewCall("disconnect", "", "awaitClose", 0)
                                                EXCEPT !.sentOn = client]})
            /\ event' = CallEvent("disconnect", 0, "none", FALSE)
       ELSE /\ event' = ReturnEvent(NewCall("disconnect", "", "done", 0), 0, FALSE,
                                    NoEnvelope, Returned("void", ""))
            /\ UNCHANGED <<chan, calls>>
    /\ UNCHANGED <<client, transport, connected, connectPromise, skipAuthCheck,
                   attempts, serverAuth>>
    /\ UNCHANGED cacheVars

\* disconnect() resumes from `await this.client.close()`
DisconnectFinish(c) ==
    /\ c \in Calls
    /\ Drained
    /\ c.pc = "awaitClose"
    /\ connected' = FALSE
    /\ connectPromise' = 0
    /\ Return(c, c.sentOn, FALSE, NoEnvelope, Returned("void", ""))
    /\ UNCHANGED <<client, transport, skipAuthCheck, attempts, chan, nCalls, serverAuth>>
    /\ UNCHANGED cacheVars

\* the commands list-tools, login and verify-login: `client.skipAuthCheck = true`
SetSkipAuthCheck ==
    /\ ~skipAuthCheck
    /\ skipAuthCheck' = TRUE
    /\ event' = NoEvent
    /\ UNCHANGED <<client, transport, connected, connectPromise, attempts, chan,
                   calls, nCalls, serverAuth>>
    /\ UNCHANGED cacheVars

\* outside the client: the token expires, or the user logs in interactively
ServerAuthChange ==
    /\ serverAuth' = ~serverAuth
    /\ event' = NoEvent
    /\ UNCHANGED <<client, transport, connected, connectPromise, skipAuthCheck,
                   attempts, chan, calls, nCalls>>
    /\ UNCHANGED cacheVars

(***************************************************************************)
(* Cache layer (@local/plugin-cache), as the specification describes the   *)
(* consumed contract: keys derived from an operation name and a normalized *)
(* argument object, read-through with a TTL, invalidation by key and by    *)
(* pattern.                                                                 *)
(***************************************************************************)
Undefined == "<undefined>"

\* the property names of the argument objects, in the stable (sorted) order
FieldOrder ==
    <<"calendarId", "end", "entityTypes", "folderId", "id", "listId", "query",
      "skip", "start", "top">>

RECURSIVE SerializeFrom(_, _)
SerializeFrom(args, i) ==
    IF i > Len(FieldOrder) THEN ""
    ELSE LET f == FieldOrder[i]
         IN  (IF f \in DOMAIN args /\ args[f] # Undefined
              THEN f \o "=" \o args[f] \o ";"
              ELSE "")
             \o SerializeFrom(args, i + 1)

createCacheKey(prefix, args) == prefix \o ":" \o SerializeFrom(args, 1)

\* regex.test(key) for the anchored literal patterns /^prefix/
MatchesPattern(key, prefix) == StartsWith(key, prefix)

Fresh(key) == key \in DOMAIN cache /\ now < cache[key].storedAt + cache[key].ttl

CacheWithout(keys) == [k \in (DOMAIN cache) \ keys |-> cache[k]]

CacheWith(key, entry) ==
    [k \in (DOMAIN cache) \cup {key} |-> IF k = key THEN entry ELSE cache[k]]

(***************************************************************************)
(* Domain facade: the read operations.                                     *)
(***************************************************************************)
FIVE_MINUTES == 1
FIFTEEN_MINUTES == 3
HOUR == 12

MessageIds == {"m1", "m2"}
EventIds == {"e1"}
CalendarIds == {Undefined, "c1"}

NoOptions == [given |-> FALSE, v |-> <<>>]
Options(o) == [given |-> TRUE, v |-> o]

\* `options || {}`
OrEmpty(options) == IF options.given THEN options.v ELSE <<>>

ReadRequests ==
    {[op |-> "listMailMessages", options |-> o] :
        o \in {NoOptions, Options([top |-> "10"])}}
    \cup {[op |-> "listMailFolders"]}
    \cup {[op |-> "listMailFolderMessages", folderId |-> "inbox", options |-> o] :
        o \in {NoOptions}}
    \cup {[op |-> "getMailMessage", messageId |-> m] : m \in MessageIds}
    \cup {[op |-> "listCalendars"]}
    \cup {[op |-> "listCalendarEvents", options |-> o] :
        o \in {NoOptions, Options(<<>>)}}
    \cup {[op |-> "getCalendarEvent", eventId |-> e, calendarId |-> c] :
        e \in EventIds, c \in CalendarIds}
    \cup {[op |-> "getCalendarView", startDateTime |-> "d1", endDateTime |-> "d2",
           calendarId |-> c] : c \in {Undefined}}
    \cup {[op |-> "listContacts", options |-> o] : o \in {NoOptions}}
    \cup {[op |-> "listTasks", options |-> o] : o \in {NoOptions}}
    \cup {[op |-> "search", query |-> "invoice", entityTypes |-> Undefined]}

\* the cache key each read computes
CacheKeyOf(q) ==
    CASE q.op = "listMailMessages" ->
            createCacheKey("mail_messages", OrEmpty(q.options))
      [] q.op = "listMailFolders" -> "mail_folders"
      [] q.op = "listMailFolderMessages" ->
            createCacheKey("folder_messages",
                           OrEmpty(q.options) @@ [folderId |-> q.folderId])
      [] q.op = "getMailMessage" ->
            createCacheKey("mail_message", [id |-> q.messageId])
      [] q.op = "listCalendars" -> "calendars"
      [] q.op = "listCalendarEvents" ->
            createCacheKey("calendar_events", OrEmpty(q.options))
      [] q.op = "getCalendarEvent" ->
            createCacheKey("calendar_event",
                           [id |-> q.eventId, calendarId |-> q.calendarId])
      [] q.op = "getCalendarView" ->
            createCacheKey("calendar_view",
                           [start |-> q.startDateTime, end |-> q.endDateTime,
                            calendarId |-> q.calendarId])
      [] q.op = "listContacts" -> createCacheKey("contacts", OrEmpty(q.options))
      [] q.op = "listTasks" -> createCacheKey("tasks", OrEmpty(q.options))
      [] q.op = "search" ->
            createCacheKey("search", [query |-> q.query, entityTypes |-> q.entityTypes])

\* what each read asks the server for: one item by its id, the items of a
\* date range, a reference list taken without arguments, or a list of items
Shape(op) ==
    CASE op \in {"getMailMessage", "getCalendarEvent"} -> "item"
      [] op = "getCalendarView" -> "range"
      [] op \in {"listMailFolders", "listCalendars"} -> "reference"
      [] op \in {"listMailMessages", "listMailFolderMessages", "listCalendarEvents",
                 "listContacts", "listTasks", "search"} -> "list"

\* the three tiers: TTL.FIVE_MINUTES, TTL.FIFTEEN_MINUTES, TTL.HOUR
TierTTL(shape) ==
    CASE shape = "list" -> FIVE_MINUTES
      [] shape \in {"item", "range"} -> FIFTEEN_MINUTES
      [] shape = "reference" -> HOUR

\* every list cached in the five-minute tier
TTLOf_ByShape(op) == TierTTL(Shape(op))

\* every read cached for five minutes
TTLOf_AllFiveMinutes(op) == FIVE_MINUTES

\* every read cached for an hour
TTLOf_AllHour(op) == HOUR

\* the TTL each read passes to getOrFetch
TTLOf(op) ==
    CASE op = "listMailMessages" -> FIVE_MINUTES
      [] op = "listMailFolders" -> HOUR
      [] op = "listMailFolderMessages" -> FIVE_MINUTES
      [] op = "getMailMessage" -> FIFTEEN_MINUTES
      [] op = "listCalendars" -> HOUR
      [] op = "listCalendarEvents" -> FIFTEEN_MINUTES
      [] op = "getCalendarEvent" -> FIFTEEN_MINUTES
      [] op = "getCalendarView" -> FIFTEEN_MINUTES
      [] op = "listContacts" -> FIFTEEN_MINUTES
      [] op = "listTasks" -> FIVE_MINUTES
      [] op = "search" -> FIVE_MINUTES

\* the tool each read's producer calls
ToolOf(op) ==
    CASE op = "listMailMessages" -> "list-mail-messages"
      [] op = "listMailFolders" -> "list-mail-folders"
      [] op = "listMailFolderMessages" -> "list-mail-folder-messages"
      [] op = "getMailMessage" -> "get-mail-message"
      [] op = "listCalendars" -> "list-calendars"
      [] op = "listCalendarEvents" -> "list-calendar-events"
      [] op = "getCalendarEvent" -> "get-calendar-event"
      [] op = "getCalendarView" -> "get-calendar-view"
      [] op = "listContacts" -> "list-outlook-contacts"
      [] op = "listTasks" -> "list-tasks"
      [] op = "search" -> "search"
      [] op = "sendMail" -> "send-mail"
      [] op = "createDraftEmail" -> "create-draft-email"
      [] op = "moveMailMessage" -> "move-mail-message"
      [] op = "deleteMailMessage" -> "delete-mail-message"
      [] op = "createCalendarEvent" -> "create-calendar-event"
      [] op = "updateCalendarEvent" -> "update-calendar-event"
      [] op = "deleteCalendarEvent" -> "delete-calendar-event"

(***************************************************************************)
(* Domain facade: the write operations and what each invalidates.          *)
(***************************************************************************)
WriteRequests ==
    {[op |-> "sendMail"], [op |-> "createDraftEmail"], [op |-> "createCalendarEvent"]}
    \cup {[op |-> "moveMailMessage", messageId |-> m, destinationFolderId |-> "archive"] :
            m \in MessageIds}
    \cup {[op |-> "deleteMailMessage", messageId |-> m] : m \in MessageIds}
    \cup {[op |-> "updateCalendarEvent", eventId |-> e, calendarId |-> c] :
            e \in EventIds, c \in CalendarIds}
    \cup {[op |-> "deleteCalendarEvent", eventId |-> e, calendarId |-> c] :
            e \in EventIds, c \in CalendarIds}

\* whether the write w, once its tool call has succeeded, removes the entry at key
InvalidatedBy(w, key) ==
    CASE w.op = "sendMail" -> MatchesPattern(key, "mail_messages")
      [] w.op = "createDraftEmail" -> FALSE
      [] w.op \in {"moveMailMessage", "deleteMailMessage"} ->
            \/ MatchesPattern(key, "mail_messages")
            \/ MatchesPattern(key, "folder_messages")
            \/ key = createCacheKey("mail_message", [id |-> w.messageId])
      [] w.op = "createCalendarEvent" ->
            \/ MatchesPattern(key, "calendar_events")
            \/ MatchesPattern(key, "calendar_view")
      [] w.op \in {"updateCalendarEvent", "deleteCalendarEvent"} ->
            \/ MatchesPattern(key, "calendar_events")
            \/ MatchesPattern(key, "calendar_view")
            \/ key = createCacheKey("calendar_event",
                                    [id |-> w.eventId, calendarId |-> w.calendarId])

\* the invalidation calls the write w makes once its tool call has succeeded:
\* the patterns of its invalidatePattern calls and the keys of its invalidate calls
Invalidations(w) ==
    CASE w.op = "sendMail" -> {"^mail_messages"}
      [] w.op = "createDraftEmail" -> {}
      [] w.op \in {"moveMailMessage", "deleteMailMessage"} ->
            {"^mail_messages", "^folder_messages",
             createCacheKey("mail_message", [id |-> w.messageId])}
      [] w.op = "createCalendarEvent" -> {"^calendar_events", "^calendar_view"}
      [] w.op \in {"updateCalendarEvent", "deleteCalendarEvent"} ->
            {"^calendar_events", "^calendar_view",
             createCacheKey("calendar_event",
                            [id |-> w.eventId, calendarId |-> w.calendarId])}

(***************************************************************************)
(* The facade's operations over the cache.  A read goes through            *)
(* getOrFetch; a miss and every write hold one callTool in flight until    *)
(* the server answers or the call fails.                                   *)
(***************************************************************************)
InFlightOps == BagToSet(ops)

ReadHitEvent(q, key, entry) ==
    [ev |-> "hit", req |-> q, key |-> key, value |-> entry.value,
     invalidatedAt |-> entry.invalidatedAt, sinceDisable |-> entry.sinceDisable]
ReadMissEvent(q, key, bypass) ==
    [ev |-> "miss", req |-> q, key |-> key, bypass |-> bypass, tool |-> ToolOf(q.op)]
ReadFetchedEvent(o, v) ==
    [ev |-> "fetched", req |-> o.req, key |-> o.key, value |-> v, stored |-> o.store,
     disabled |-> o.disabled]
WriteStartEvent(w) ==
    [ev |-> "writing", req |-> w, tool |-> ToolOf(w.op)]
WrittenEvent(w) ==
    [ev |-> "written", req |-> w, invalidated |-> Invalidations(w)]
FailedEvent(o) ==
    [ev |-> "failed", kind |-> o.kind, req |-> o.req]

\* a client whose disableCache() has no effect on its reads
Bypassed_Never == FALSE

\* `bypassCache: this.cacheDisabled`, the flag disableCache() sets together
\* with the cache's own switch
Bypassed == cacheDisabled

\* a read is invoked: getOrFetch(key, producer, {ttl, bypassCache})
Read(q) ==
    /\ nOps' = nOps + 1
    /\ LET key == CacheKeyOf(q)
       IN  IF ~Bypassed /\ Fresh(key)
           THEN /\ event' = ReadHitEvent(q, key, cache[key])
                /\ UNCHANGED ops
           ELSE /\ ops' = ops (+) SetToBag({[kind |-> "read", req |-> q, key |-> key,
                                             ttl |-> TTLOf(q.op),
                                             store |-> ~Bypassed,
                                             disabled |-> cacheDisabled,
                                             since |-> serverVersion,
                                             invalidatedAt |-> 0]})
                /\ event' = ReadMissEvent(q, key, Bypassed)
    /\ UNCHANGED <<cacheDisabled, cache, serverVersion, now, ticks>>
    /\ UNCHANGED connVars

\* whether an entry stored now under the key makes the key cached only since
\* the last disableCache()
SinceDisable(key) ==
    /\ cacheDisabled
    /\ key \in DOMAIN cache => cache[key].sinceDisable

\* the producer's callTool returns: the value is the server's data as of some
\* moment between the request and the answer; getOrFetch stores and returns it
ReadFetched(o) ==
    /\ o \in InFlightOps
    /\ o.kind = "read"
    /\ \E v \in o.since..serverVersion :
          /\ cache' = IF o.store
                      THEN CacheWith(o.key,
                                     [value |-> v, storedAt |-> now, ttl |-> o.ttl,
                                      req |-> o.req, invalidatedAt |-> o.invalidatedAt,
                                      sinceDisable |-> SinceDisable(o.key),
                                      disabled |-> o.disabled])
                      ELSE cache
          /\ event' = ReadFetchedEvent(o, v)
    /\ ops' = ops (-) SetToBag({o})
    /\ UNCHANGED <<cacheDisabled, nOps, serverVersion, now, ticks>>
    /\ UNCHANGED connVars

\* a write is invoked: it calls callTool directly
Write(w) ==
    /\ nOps' = nOps + 1
    /\ ops' = ops (+) SetToBag({[kind |-> "write", req |-> w]})
    /\ event' = WriteStartEvent(w)
    /\ UNCHANGED <<cacheDisabled, cache, serverVersion, now, ticks>>
    /\ UNCHANGED connVars

\* what a completed write leaves of a call in flight: a read whose key the
\* write invalidates remembers the server's version after that write
AfterWrite(w, o) ==
    IF o.kind = "read" /\ InvalidatedBy(w, o.key)
    THEN [o EXCEPT !.invalidatedAt = serverVersion + 1]
    ELSE o

\* the write's callTool returns: the server has applied it, and the write
\* invalidates before it returns
Written(o) ==
    /\ o \in InFlightOps
    /\ o.kind = "write"
    /\ serverVersion' = serverVersion + 1
    /\ cache' = CacheWithout({k \in DOMAIN cache : InvalidatedBy(o.req, k)})
    /\ ops' = BagOfAll(LAMBDA x : AfterWrite(o.req, x), ops (-) SetToBag({o}))
    /\ event' = WrittenEvent(o.req)
    /\ UNCHANGED <<cacheDisabled, nOps, now, ticks>>
    /\ UNCHANGED connVars

\* a write that invalidates in a finally block, whether or not its call threw
FailedWriteInvalidates_Finally(w, key) == InvalidatedBy(w, key)

\* whether the write w, whose tool call has thrown, removes the entry at key:
\* the invalidation calls follow the awaited callTool and are skipped
FailedWriteInvalidates(w, key) == FALSE

\* a cache that stores an entry for a read whose producer threw
FailedReadStores_Always(o) == o.store

\* whether getOrFetch stores an entry when the producer of the read o throws
FailedReadStores(o) == FALSE

\* the cache after the callTool of o has thrown
CacheAfterFailure(o) ==
    IF o.kind = "write"
    THEN CacheWithout({k \in DOMAIN cache : FailedWriteInvalidates(o.req, k)})
    ELSE IF FailedReadStores(o)
         THEN CacheWith(o.key, [value |-> o.since, storedAt |-> now, ttl |-> o.ttl,
                                req |-> o.req, invalidatedAt |-> o.invalidatedAt,
                                sinceDisable |-> SinceDisable(o.key),
                                disabled |-> o.disabled])
         ELSE cache

\* the callTool of a read or of a write throws: the operation has no handler
\* and rejects with the error of callTool
Failed(o) ==
    /\ o \in InFlightOps
    /\ event' = FailedEvent(o)
    /\ ops' = ops (-) SetToBag({o})
    /\ cache' = CacheAfterFailure(o)
    /\ UNCHANGED <<cacheDisabled, nOps, serverVersion, now, ticks>>
    /\ UNCHANGED connVars

DisableCache ==
    /\ ~cacheDisabled
    /\ cacheDisabled' = TRUE
    /\ cache' = [k \in DOMAIN cache |-> [cache[k] EXCEPT !.sinceDisable = FALSE]]
    /\ event' = NoEvent
    /\ UNCHANGED <<ops, nOps, serverVersion, now, ticks>>
    /\ UNCHANGED connVars

EnableCache ==
    /\ cacheDisabled
    /\ cacheDisabled' = FALSE
    /\ event' = NoEvent
    /\ UNCHANGED <<cache, ops, nOps, serverVersion, now, ticks>>
    /\ UNCHANGED connVars

ClearCache ==
    /\ cache # <<>>
    /\ cache' = <<>>
    /\ event' = NoEvent
    /\ UNCHANGED <<cacheDisabled, ops, nOps, serverVersion, now, ticks>>
    /\ UNCHANGED connVars

\* time passes
Tick(d) ==
    /\ ticks < MaxTicks
    /\ ticks' = ticks + 1
    /\ now' = now + d
    /\ event' = NoEvent
    /\ UNCHANGED <<cacheDisabled, cache, ops, nOps, serverVersion>>
    /\ UNCHANGED connVars

Init ==
    /\ client = 0
    /\ transport = 0
    /\ connected = FALSE
    /\ connectPromise = 0
    /\ skipAuthCheck = FALSE
    /\ attempts = <<>>
    /\ chan = <<>>
    /\ calls = EmptyBag
    /\ nCalls = 0
    /\ event = NoEvent
    /\ serverAuth \in BOOLEAN
    /\ cacheDisabled = FALSE
    /\ cache = <<>>
    /\ ops = EmptyBag
    /\ nOps = 0
    /\ serverVersion = 0
    /\ now = 0
    /\ ticks = 0

Next ==
    \/ CallConnect
    \/ CallTool
    \/ CallDisconnect
    \/ SetSkipAuthCheck
    \/ ServerAuthChange
    \/ \E a \in Attempts : HandshakeOk(a)
    \/ \E a \in Attempts : HandshakeFail(a)
    \/ \E a \in Attempts : PreflightRespond(a)
    \/ \E a \in Attempts : PreflightFail(a)
    \/ \E c \in Calls : ConnectReturn(c)
    \/ \E c \in Calls : ToolRespond(c)
    \/ \E c \in Calls : ToolFail(c)
    \/ \E c \in Calls : DisconnectFinish(c)

Spec == Init /\ [][Next]_vars

\* the same with listTools among the callers
NextListTools ==
    \/ CallListTools
    \/ Next

SpecListTools == Init /\ [][NextListTools]_vars

(***************************************************************************)
(* One client instance used first by an auth-exempt caller and then by     *)
(* others: skipAuthCheck is a public field (`public skipAuthCheck =        *)
(* false`), which the exempt callers set and which a caller of the class   *)
(* can restore to its initial value.  No disconnect().                     *)
(***************************************************************************)
ClearSkipAuthCheck ==
    /\ skipAuthCheck
    /\ skipAuthCheck' = FALSE
    /\ event' = NoEvent
    /\ UNCHANGED <<client, transport, connected, connectPromise, attempts, chan,
                   calls, nCalls, serverAuth>>
    /\ UNCHANGED cacheVars

NextReuse ==
    \/ CallTool
    \/ CallListTools
    \/ SetSkipAuthCheck
    \/ ClearSkipAuthCheck
    \/ ServerAuthChange
    \/ \E a \in Attempts : HandshakeOk(a)
    \/ \E a \in Attempts : HandshakeFail(a)
    \/ \E a \in Attempts : PreflightRespond(a)
    \/ \E a \in Attempts : PreflightFail(a)
    \/ \E c \in Calls : ConnectReturn(c)
    \/ \E c \in Calls : ToolRespond(c)
    \/ \E c \in Calls : ToolFail(c)

SpecReuse == Init /\ [][NextReuse]_vars

(***************************************************************************)
(* One run of the CLI: a fresh client and one command on it.               *)
(***************************************************************************)
ExemptCommands == {"list-tools", "login", "verify-login"}

Commands == ExemptCommands \cup {"list-folders"}

\* the command's handler, up to its first await
RunCommand(cmd) ==
    /\ nCalls = 0
    /\ nCalls' = 1
    /\ skipAuthCheck' = (cmd \in ExemptCommands)
    /\ CASE cmd = "list-tools" -> connect("listTools", "")
         [] cmd = "login" -> connect("callTool", "login")
         [] cmd = "verify-login" -> connect("callTool", "verify-login")
         [] cmd = "list-folders" -> connect("callTool", "list-mail-folders")
    /\ UNCHANGED serverAuth
    /\ UNCHANGED cacheVars

NextCli ==
    \/ \E cmd \in Commands : RunCommand(cmd)
    \/ ServerAuthChange
    \/ \E a \in Attempts : HandshakeOk(a)
    \/ \E a \in Attempts : HandshakeFail(a)
    \/ \E a \in Attempts : PreflightRespond(a)
    \/ \E a \in Attempts : PreflightFail(a)
    \/ \E c \in Calls : ConnectReturn(c)
    \/ \E c \in Calls : ToolRespond(c)
    \/ \E c \in Calls : ToolFail(c)

SpecCli == Init /\ [][NextCli]_vars

InitCache == Init /\ serverAuth

(***************************************************************************)
(* The classifier on its own: isAuthError applied to error texts.          *)
(***************************************************************************)
UpperChar(c) ==
    CASE c = "a" -> "A" [] c = "b" -> "B" [] c = "c" -> "C" [] c = "d" -> "D"
      [] c = "e" -> "E" [] c = "f" -> "F" [] c = "g" -> "G" [] c = "h" -> "H"
      [] c = "i" -> "I" [] c = "j" -> "J" [] c = "k" -> "K" [] c = "l" -> "L"
      [] c = "m" -> "M" [] c = "n" -> "N" [] c = "o" -> "O" [] c = "p" -> "P"
      [] c = "q" -> "Q" [] c = "r" -> "R" [] c = "s" -> "S" [] c = "t" -> "T"
      [] c = "u" -> "U" [] c = "v" -> "V" [] c = "w" -> "W" [] c = "x" -> "X"
      [] c = "y" -> "Y" [] c = "z" -> "Z" [] OTHER -> c

RECURSIVE ToUpperCase(_)
ToUpperCase(s) ==
    IF s = "" THEN ""
    ELSE UpperChar(SubSeq(s, 1, 1)) \o ToUpperCase(SubSeq(s, 2, Len(s)))

Capitalized(s) ==
    IF s = "" THEN "" ELSE UpperChar(SubSeq(s, 1, 1)) \o SubSeq(s, 2, Len(s))

\* the phrases servers put in error texts: the ones the classifier knows and
\* near misses of them
ErrorPhrases ==
    AuthVocabulary
    \cup { "no valid tokens left", "token expire", "unauthorised", "40 1", "4011",
           "invalid grant", "interaction-required", "login  required", "authenticated",
           "invalid authentication token", "lifetime validation failed",
           "compact token", "authorization_identity", "silent token acquisition",
           "mailbox not found", "" }

ErrorTexts ==
    { pre \o w \o post :
        pre \in {"", "Graph error: "},
        w \in UNION {{p, ToUpperCase(p), Capitalized(p)} : p \in ErrorPhrases},
        post \in {"", " (request 7)"} }

ClassifiedEvent(text) ==
    [ev |-> "classified", text |-> text, flagged |-> isAuthError(text)]

Classify(text) ==
    /\ event' = ClassifiedEvent(text)
    /\ UNCHANGED connVars
    /\ UNCHANGED cacheVars

NextClassify == \E text \in ErrorTexts : Classify(text)

SpecClassify == InitCache /\ [][NextClassify]_vars

(***************************************************************************)
(* callTool's reading of a response, over envelopes of up to MaxItems      *)
(* content items.                                                          *)
(***************************************************************************)
ItemTexts ==
    {"", "Message sent", "{\"value\":[", "{\"value\":[]}", "{\"success\":true}"}

Items == {TextItem(t) : t \in ItemTexts} \cup {BareTextItem, ImageItem}

Contents == UNION {[1..n -> Items] : n \in 0..MaxItems}

Envelopes == {Envelope(e, c) : e \in BOOLEAN, c \in Contents}

UnwrappedEvent(r) == [ev |-> "unwrapped", resp |-> r, result |-> callToolResult(r)]

Unwrap(r) ==
    /\ event' = UnwrappedEvent(r)
    /\ UNCHANGED connVars
    /\ UNCHANGED cacheVars

NextUnwrap == \E r \in Envelopes : Unwrap(r)

SpecUnwrap == InitCache /\ [][NextUnwrap]_vars

\* reads as time passes
NextCache ==
    \/ \E q \in ReadRequests : nOps < MaxReads /\ Read(q)
    \/ \E o \in InFlightOps : ReadFetched(o)
    \/ \E o \in InFlightOps : Failed(o)
    \/ ClearCache
    \/ \E d \in {FIVE_MINUTES, FIFTEEN_MINUTES, HOUR} : Tick(d)

SpecCache == InitCache /\ [][NextCache]_vars

\* reads with the cache switched off and on
NextSwitch ==
    \/ \E q \in ReadRequests : nOps < MaxReads /\ Read(q)
    \/ \E o \in InFlightOps : ReadFetched(o)
    \/ \E o \in InFlightOps : Failed(o)
    \/ DisableCache
    \/ EnableCache

SpecSwitch == InitCache /\ [][NextSwitch]_vars

\* reads interleaved with writes
NextWrites ==
    \/ \E q \in ReadRequests : nOps < MaxOps /\ Read(q)
    \/ \E w \in WriteRequests : nOps < MaxOps /\ Write(w)
    \/ \E o \in InFlightOps : ReadFetched(o)
    \/ \E o \in InFlightOps : Written(o)
    \/ \E o \in InFlightOps : Failed(o)

SpecWrites == InitCache /\ [][NextWrites]_vars

(***************************************************************************)
(* Reads through the cache over the session: the producer getOrFetch       *)
(* invokes is callTool, which connects before it sends its request.        *)
(***************************************************************************)
ThroughRequests ==
    {[op |-> "listMailMessages", options |-> NoOptions],
     [op |-> "getMailMessage", messageId |-> "m1"]}

\* a cache that invokes the producer whether or not it holds a fresh entry
ProducerCalled_Always(hit) == TRUE

\* whether getOrFetch invokes the producer: on a miss, on expiry or when bypassed
ProducerCalled(hit) == ~hit

\* a read is invoked: getOrFetch(key, () => this.callTool(tool, args), ...)
ReadThrough(q) ==
    LET key == CacheKeyOf(q)
        hit == ~Bypassed /\ Fresh(key)
    IN  /\ nOps' = nOps + 1
        /\ IF ProducerCalled(hit)
           THEN /\ connectStep("callTool", ToolOf(q.op))
                /\ ops' = ops (+) SetToBag({[kind |-> "read", req |-> q, key |-> key,
                                             ttl |-> TTLOf(q.op),
                                             store |-> ~Bypassed,
                                             disabled |-> cacheDisabled,
                                             since |-> serverVersion,
                                             invalidatedAt |-> 0]})
           ELSE UNCHANGED <<client, transport, connected, connectPromise, attempts,
                            chan, calls, ops>>
        /\ event' = IF hit THEN ReadHitEvent(q, key, cache[key])
                           ELSE ReadMissEvent(q, key, Bypassed)
        /\ UNCHANGED <<skipAuthCheck, nCalls, serverAuth, cacheDisabled, cache,
                       serverVersion, now, ticks>>

\* what the step of the producer c, observed in event', does to the cache:
\* nothing while c goes on; when c returns, getOrFetch stores its value and
\* when c throws, getOrFetch rejects with that error.  c is the producer of a
\* read in flight for the tool it names
ProducerStep(c) ==
    /\ IF event'.ev = "return"
       THEN \E o \in {x \in InFlightOps :
                          x.kind = "read" /\ ToolOf(x.req.op) = c.name} :
               /\ ops' = ops (-) SetToBag({o})
               /\ cache' = IF event'.result.kind = "ok"
                           THEN IF o.store
                                THEN CacheWith(o.key,
                                       [value |-> serverVersion, storedAt |-> now,
                                        ttl |-> o.ttl, req |-> o.req,
                                        invalidatedAt |-> o.invalidatedAt,
                                        sinceDisable |-> SinceDisable(o.key),
                                        disabled |-> o.disabled])
                                ELSE cache
                           ELSE CacheAfterFailure(o)
       ELSE UNCHANGED <<ops, cache>>
    /\ UNCHANGED <<cacheDisabled, nOps, serverVersion, now, ticks>>

ProducerConnectReturn(c) ==
    /\ c \in Calls
    /\ c.op = "callTool"
    /\ ConnectReturnStep(c)
    /\ ProducerStep(c)

ProducerRespond(c) ==
    /\ c \in Calls
    /\ c.op = "callTool"
    /\ ToolRespondStep(c)
    /\ ProducerStep(c)

ProducerFail(c) ==
    /\ c \in Calls
    /\ c.op = "callTool"
    /\ ToolFailStep(c)
    /\ ProducerStep(c)

\* reads and disconnect(), MaxOps invocations in all
NextThrough ==
    \/ \E q \in ThroughRequests : nOps + nCalls < MaxOps /\ ReadThrough(q)
    \/ nOps + nCalls < MaxOps /\ CallDisconnect
    \/ ServerAuthChange
    \/ \E a \in Attempts : HandshakeOk(a)
    \/ \E a \in Attempts : HandshakeFail(a)
    \/ \E a \in Attempts : PreflightRespond(a)
    \/ \E a \in Attempts : PreflightFail(a)
    \/ \E c \in Calls : ProducerConnectReturn(c)
    \/ \E c \in Calls : ProducerRespond(c)
    \/ \E c \in Calls : ProducerFail(c)
    \/ \E c \in Calls : DisconnectFinish(c)

SpecThrough == Init /\ [][NextThrough]_vars

(***************************************************************************)
(* Observations used by the properties below.                              *)
(***************************************************************************)
InFlight == {a \in Attempts : Pending(a)}
OpenSessions == {c \in 1..Len(chan) : chan[c] = "open"}
Waiting(a) == {c \in Calls : c.pc = "awaitConnect" /\ c.promise = a}

\* what the promise of attempt a settles to, as a result of connect()
OutcomeOf(a) ==
    IF attempts[a].st = "rejected" THEN Thrown(attempts[a].err)
    ELSE Returned("void", "")

(***************************************************************************)
(* C1.  Single-flight connect: while the first attempt has not settled and *)
(* nothing has closed its channel, however many times connect() has been   *)
(* invoked, directly or through callTool, there is exactly one transport,  *)
(* one handshake and at most one verify-login, and every caller awaits     *)
(* that one promise; each caller of connect() then returns exactly the     *)
(* outcome of the promise it awaited, so all of them resolve or all reject *)
(* with the same error.                                                    *)
(***************************************************************************)
C1_SingleFlight ==
    /\ (Len(attempts) >= 1 /\ Pending(1) /\ chan[1] # "closed") =>
          /\ Len(attempts) = 1
          /\ Len(chan) = 1
          /\ connectPromise = 1
          /\ \A c \in Calls : c.promise = 1
          /\ Cardinality({a \in Attempts : attempts[a].preflightOn # 0}) <= 1
    /\ \A a \in Attempts : attempts[a].preflightOn # 0 => attempts[a].st # "handshake"
    /\ (event.ev = "call" /\ event.promise # 0 /\ ~event.created) =>
          event.promise \in Attempts
    /\ (event.ev = "return" /\ event.op = "connect") =>
          event.result = OutcomeOf(event.promise)

\* three callers share the first attempt while it is in its handshake
C1_Witness ==
    /\ Len(attempts) = 1
    /\ attempts[1].st = "handshake"
    /\ BagCardinality(calls) >= 3
    /\ Calls = Waiting(1)

(***************************************************************************)
(* C2.  At most one connection attempt (a doConnect that has started and   *)
(* not settled) is in flight in every reachable state.                     *)
(***************************************************************************)
C2_OneAttemptInFlight == Cardinality(InFlight) <= 1

(***************************************************************************)
(* C3.  At most one session exists: at most one Client has completed its   *)
(* handshake and has not been closed.                                      *)
(***************************************************************************)
C3_OneSession == Cardinality(OpenSessions) <= 1

(***************************************************************************)
(* C4.  The preflight fails fast: whenever the server answers verify-login *)
(* while it holds no valid token, in whatever form, connect() rejects with *)
(* the authentication-required error and no caller that awaited this       *)
(* attempt has its tool request sent.                                      *)
(***************************************************************************)
C4_PreflightFailsFast ==
    \A a \in Attempts :
        attempts[a].verified = "unauth" =>
            /\ attempts[a].st = "rejected"
            /\ attempts[a].err = AuthRequiredPreflight
            /\ \A c \in Calls : c.promise = a => c.pc # "awaitTool"

(***************************************************************************)
(* C5.  Retry after failure: the pending-attempt marker never designates   *)
(* an attempt that has failed, so connect() never hands out an attempt     *)
(* that had already failed when it was called: a caller is handed the      *)
(* attempt doConnect has just started for it, or one that was still        *)
(* pending or had succeeded.                                               *)
(***************************************************************************)
C5_RetryAfterFailure ==
    /\ \A a \in Attempts : attempts[a].st = "rejected" => connectPromise # a
    /\ (event.ev = "call" /\ event.promise # 0) =>
          /\ event.joinedSt # "rejected"
          /\ event.created => (event.promise = Len(attempts) /\ event.joinedSt = "handshake")

\* a connect() after a failed attempt has started a fresh attempt
C5_Witness ==
    /\ event.ev = "call"
    /\ event.created
    /\ \E a \in Attempts : a < event.promise /\ attempts[a].st = "rejected"

(***************************************************************************)
(* C10.  Tool-call error classification.                                   *)
(***************************************************************************)
\* the text the server put in its response: that of its first text item, none
\* (the empty text) if it has no text item or the item carries no text
ServerText(resp) ==
    LET i == FindText(resp.content)
    IN  IF i = 0 THEN ""
        ELSE IF "text" \in DOMAIN resp.content[i] THEN resp.content[i].text
        ELSE ""

IsAuthRequired(r) ==
    /\ r.kind = "error"
    /\ StartsWith(r.message, "AUTHENTICATION_REQUIRED:")

ErrorAnswered == event.ev = "return" /\ event.answered /\ event.resp.isError

\* C10 as stated: an error response makes callTool throw; the error is the
\* authentication-required condition if the server's error text holds a recognized
\* term, and otherwise a generic error whose message is exactly that text.
C10_AsStated ==
    ErrorAnswered =>
        /\ event.result.kind = "error"
        /\ IF isAuthError(ServerText(event.resp))
           THEN IsAuthRequired(event.result)
           ELSE event.result.message = ServerText(event.resp)

\* C10 amended: the same, the error text being the text of the response's first
\* text item, or "Tool call failed" when there is no such item or its text is
\* missing or empty.
C10_Classification ==
    ErrorAnswered =>
        LET t == IF ServerText(event.resp) = "" THEN "Tool call failed"
                 ELSE ServerText(event.resp)
        IN  /\ event.result.kind = "error"
            /\ IF isAuthError(t)
               THEN /\ IsAuthRequired(event.result)
                    /\ Includes(event.result.message, t)
               ELSE event.result.message = t

\* the scenario of the specification: "401 Unauthorized" raised as authentication-required
C10_Witness ==
    /\ ErrorAnswered
    /\ ServerText(event.resp) = "401 Unauthorized"
    /\ IsAuthRequired(event.result)

(***************************************************************************)
(* Observations of the cache used by the properties below.                 *)
(***************************************************************************)
\* the argument object of a request with its options spread into it, and the
\* normalized one: undefined fields omitted
FlatArgs(q) ==
    LET o == IF "options" \in DOMAIN q THEN OrEmpty(q.options) ELSE <<>>
        own == (DOMAIN q) \ {"op", "options"}
    IN  [f \in own \cup DOMAIN o |-> IF f \in DOMAIN o THEN o[f] ELSE q[f]]

NormalizedArgs(q) ==
    LET flat == FlatArgs(q)
    IN  [f \in {g \in DOMAIN flat : flat[g] # Undefined} |-> flat[f]]

SameCall(q1, q2) == q1.op = q2.op /\ NormalizedArgs(q1) = NormalizedArgs(q2)

\* the TTL each read operation declares (`@cached TTL: ...`), in minutes
DeclaredTTLMinutes(op) ==
    CASE op \in {"listMailMessages", "listMailFolderMessages", "listTasks", "search"} -> 5
      [] op \in {"getMailMessage", "listCalendarEvents", "getCalendarEvent",
                 "getCalendarView", "listContacts"} -> 15
      [] op \in {"listMailFolders", "listCalendars"} -> 60

\* the same in the clock's unit
DeclaredTTL(op) == (DeclaredTTLMinutes(op) * FIVE_MINUTES) \div 5

ReadInvoked == event.ev \in {"hit", "miss"}

\* the read entries each write declares it invalidates (`@invalidates ...`),
\* told by the read that stored them
DeclaredInvalidation(w, q) ==
    CASE w.op = "sendMail" -> q.op = "listMailMessages"
      [] w.op = "createDraftEmail" -> FALSE
      [] w.op \in {"moveMailMessage", "deleteMailMessage"} ->
            \/ q.op \in {"listMailMessages", "listMailFolderMessages"}
            \/ q.op = "getMailMessage" /\ q.messageId = w.messageId
      [] w.op = "createCalendarEvent" ->
            q.op \in {"listCalendarEvents", "getCalendarView"}
      [] w.op \in {"updateCalendarEvent", "deleteCalendarEvent"} ->
            \/ q.op \in {"listCalendarEvents", "getCalendarView"}
            \/ q.op = "getCalendarEvent" /\ q.eventId = w.eventId

(***************************************************************************)
(* C6.  Read-through with TTL: when a read is invoked with caching enabled *)
(* while the cache holds the entry an earlier invocation of the same       *)
(* operation with the same normalized arguments stored, and less than the  *)
(* operation's declared TTL has passed since, the read is served from the  *)
(* cache: it makes no tool call and returns the value the earlier          *)
(* invocation returned.  This holds for each of the eleven reads.          *)
(***************************************************************************)
C6_ServedFromCache ==
    (ReadInvoked /\ ~cacheDisabled) =>
        \A k \in DOMAIN cache :
            (/\ SameCall(cache[k].req, event.req)
             /\ now < cache[k].storedAt + DeclaredTTL(event.req.op))
            => /\ event.ev = "hit"
               /\ event.value = cache[k].value

\* a read is served from an entry stored earlier by a call written differently
C6_Witness ==
    /\ event.ev = "hit"
    /\ now > cache[event.key].storedAt
    /\ cache[event.key].req # event.req

(***************************************************************************)
(* C7.  TTL expiry: a read invoked when the entry for its key is at least  *)
(* as old as the operation's declared TTL is a miss, although the entry is *)
(* still in the cache: the read calls its tool again.                      *)
(***************************************************************************)
C7_ExpiredIsMiss ==
    (/\ ReadInvoked
     /\ event.key \in DOMAIN cache
     /\ now >= cache[event.key].storedAt + DeclaredTTL(event.req.op))
    => /\ event.ev = "miss"
       /\ event.tool = ToolOf(event.req.op)

\* a fifteen-minute entry read again exactly fifteen minutes later
C7_Witness ==
    /\ event.ev = "miss"
    /\ event.key \in DOMAIN cache
    /\ DeclaredTTL(event.req.op) = FIFTEEN_MINUTES
    /\ now = cache[event.key].storedAt + FIFTEEN_MINUTES

(***************************************************************************)
(* C8.  Write invalidation: when a write returns successfully, the cache   *)
(* holds none of the entries the write declares it invalidates (sendMail:  *)
(* the message lists; moveMailMessage and deleteMailMessage: the message   *)
(* lists, the folder lists and the message of the given id;                *)
(* createCalendarEvent: the event lists and the calendar views;            *)
(* updateCalendarEvent and deleteCalendarEvent: those and the entry of the *)
(* given event).                                                           *)
(***************************************************************************)
C8_WriteInvalidates ==
    event.ev = "written" =>
        \A k \in DOMAIN cache : ~DeclaredInvalidation(event.req, cache[k].req)

(***************************************************************************)
(* C9.  No stale read after invalidation: a read served from the cache     *)
(* never returns a value fetched from the server before a write that       *)
(* invalidates its key had completed.                                      *)
(***************************************************************************)
C9_NoStaleAfterInvalidation ==
    event.ev = "hit" => event.value >= event.invalidatedAt

(***************************************************************************)
(* C11.  The classifier flags a text exactly when the text contains, at    *)
(* some position and whatever the case of its letters, one of the thirteen *)
(* terms of the vocabulary.                                                *)
(***************************************************************************)
ClaimedVocabulary ==
    { "no valid token", "token expired", "unauthorized", "401", "invalid_grant",
      "interaction_required", "login required", "unauthenticated",
      "invalidauthenticationtoken", "lifetimevalidationfailed", "compacttoken",
      "authorization_identitynotfound", "silent token acquisition failed" }

ContainsIgnoringCase(text, term) ==
    \E i \in 1..Len(text) :
        /\ i + Len(term) - 1 <= Len(text)
        /\ \A j \in 1..Len(term) :
              LowerChar(SubSeq(text, i + j - 1, i + j - 1)) = SubSeq(term, j, j)

C11_FlaggedIffVocabulary ==
    event.ev = "classified" =>
        (event.flagged <=> \E term \in ClaimedVocabulary :
                              ContainsIgnoringCase(event.text, term))

\* a text flagged for a term it holds in upper case, inside other text
C11_Witness ==
    /\ event.ev = "classified"
    /\ event.flagged
    /\ event.text = "Graph error: TOKEN EXPIRED (request 7)"

(***************************************************************************)
(* C12.  The commands login, verify-login and list-tools on a fresh        *)
(* client: the connection is made without a verify-login preflight, and    *)
(* the only request sent after the handshake is the command's own, so the  *)
(* verify-login command has verify-login called once, by itself.           *)
(***************************************************************************)
C12_ExemptSkipPreflight ==
    skipAuthCheck =>
        /\ \A a \in Attempts :
              /\ attempts[a].st # "preflight"
              /\ attempts[a].preflightOn = 0
              /\ attempts[a].verified = "none"
        /\ event.ev # "preflight"
        /\ BagCardinality(calls) <= 1
        /\ \A c \in Calls :
              c.pc = "awaitTool" =>
                  /\ CopiesIn(c, calls) = 1
                  /\ c.name \in {"", "login", "verify-login"}

\* the verify-login command's own request is out, on a connection made without preflight
C12_Witness ==
    /\ skipAuthCheck
    /\ Len(attempts) = 1
    /\ attempts[1].st = "resolved"
    /\ \E c \in Calls : c.pc = "awaitTool" /\ c.name = "verify-login"

(***************************************************************************)
(* C13.  After disableCache(), every read invocation calls through to the  *)
(* server (two identical reads make two calls) and stores nothing, so      *)
(* that after enableCache() the first read of a key that was not cached    *)
(* before the disable is a miss.                                           *)
(***************************************************************************)
DisabledReadsCallThrough ==
    /\ (ReadInvoked /\ cacheDisabled) =>
          /\ event.ev = "miss"
          /\ event.bypass
          /\ \E o \in InFlightOps :
                o.kind = "read" /\ o.req = event.req /\ o.disabled /\ ~o.store
    /\ (event.ev = "fetched" /\ event.disabled) => ~event.stored
    /\ \A k \in DOMAIN cache : ~cache[k].disabled

C14_DisconnectResets ==
    /\ (event.ev = "return" /\ event.op = "disconnect" /\ event.sentOn # 0) =>
          /\ chan[event.sentOn] = "closed"
          /\ connectPromise = 0
          /\ ~connected
    /\ (event.ev = "call" /\ event.op # "disconnect" /\ ~event.created
                          /\ chan[event.promise] = "closed") =>
          \E d \in Calls : d.op = "disconnect" /\ d.sentOn = event.promise
    /\ \A c \in Calls :
          c.pc = "awaitTool" => attempts[c.sentOn].st = "resolved"

(***************************************************************************)
(* C15.  AuthRequired is absorbing: once the client has raised the         *)
(* condition, from the preflight or from a tool call, no later tool call   *)
(* returns a result until the server has been re-authenticated from        *)
(* outside.  The client keeps no state of the condition; the server's      *)
(* authentication changes only from outside (ServerAuthChange), so the     *)
(* property is: the condition is raised only against a server that is      *)
(* unauthenticated, and a tool call returns a result only from a server    *)
(* that is authenticated.                                                  *)
(***************************************************************************)
AuthRequiredRaised ==
    \/ event.ev = "preflight" /\ ~checkAuthOf[event.resp]
    \/ event.ev = "return" /\ event.answered /\ IsAuthRequired(event.result)

Progress == event.ev = "return" /\ event.op = "callTool" /\ event.result.kind = "ok"

Marked(message) ==
    /\ StartsWith(message, "AUTHENTICATION_REQUIRED:")
    /\ Includes(message, "Do NOT retry this operation")

\* the messages of the errors the client can throw, and those of them that
\* carry the marker and the instruction
ErrorMessages ==
    {ErrSpawn, ErrClosed, ErrNotConnected, AuthRequiredPreflight}
    \cup {callToolResultOf[r].message :
             r \in {q \in AllResponses : callToolResultOf[q].kind = "error"}}

MarkedMessages == {m \in ErrorMessages : Marked(m)}

\* the error answers whose text holds a term of the vocabulary
VocabularyAnswers ==
    {r \in AllResponses :
        /\ r.isError
        /\ \E term \in ClaimedVocabulary : ContainsIgnoringCase(ServerText(r), term)}

PreflightRefused(a) == attempts[a].st = "rejected" /\ attempts[a].verified # "none"

C16_AuthRequiredMessage ==
    /\ \A a \in Attempts : PreflightRefused(a) => attempts[a].err \in MarkedMessages
    /\ (event.ev = "return" /\ event.promise # 0 /\ PreflightRefused(event.promise)) =>
          event.result.kind = "error" /\ event.result.message \in MarkedMessages
    /\ (ErrorAnswered /\ event.resp \in VocabularyAnswers) =>
          event.result.kind = "error" /\ event.result.message \in MarkedMessages

\* a tool error of the vocabulary has been re-signalled
C16_Witness ==
    /\ ErrorAnswered
    /\ event.resp = Envelope(TRUE, <<ImageItem, TextItem("TOKEN EXPIRED")>>)
    /\ event.result.kind = "error"
    /\ event.result.message \in MarkedMessages

(***************************************************************************)
(* C17.  No automatic retry: an invocation of callTool sends at most one   *)
(* request for its tool, an invocation of connect() starts at most one     *)
(* attempt, and an invocation that has failed leaves nothing of its own    *)
(* in flight.                                                              *)
(***************************************************************************)
Failure == event.ev = "return" /\ event.result.kind = "error"

Unwrapped == event.ev = "unwrapped" /\ ~event.resp.isError

ReturnedAs(form, v) ==
    /\ event.result.kind = "ok"
    /\ event.result.form = form
    /\ event.result.value = v

\* as stated: any text of the first text item, the empty one included, is
\* parsed or returned as it is; the content list is for responses without text
C18_AsStated ==
    Unwrapped =>
        LET content == event.resp.content
            i == FindText(content)
        IN  IF i # 0 /\ "text" \in DOMAIN content[i]
            THEN IF JSONParse(content[i].text).ok
                 THEN ReturnedAs("json", JSONParse(content[i].text).value)
                 ELSE ReturnedAs("text", content[i].text)
            ELSE (\A j \in 1..Len(content) : content[j].type # "text")
                     => ReturnedAs("content", content)

\* amended: the content list is returned whenever the first text item is
\* missing or has no text or an empty text
C18_Unwrapping ==
    Unwrapped =>
        LET content == event.resp.content
            i == FindText(content)
        IN  IF i # 0 /\ "text" \in DOMAIN content[i] /\ content[i].text # ""
            THEN IF JSONParse(content[i].text).ok
                 THEN ReturnedAs("json", JSONParse(content[i].text).value)
                 ELSE ReturnedAs("text", content[i].text)
            ELSE ReturnedAs("content", content)

\* a JSON document behind an image is returned parsed
C18_Witness ==
    /\ Unwrapped
    /\ event.resp.content = <<ImageItem, TextItem("{\"value\":[]}")>>
    /\ ReturnedAs("json", [value |-> <<>>])

(***************************************************************************)
(* C19.  Every write calls the tool facade directly, once per invocation   *)
(* and whatever the cache holds, and when the call has succeeded it        *)
(* invalidates before it returns the server's result: no write returns     *)
(* without invalidating.                                                   *)
(***************************************************************************)
C19_WritesInvalidate ==
    /\ event.ev = "writing" =>
          /\ event.tool = ToolOf(event.req.op)
          /\ \E o \in InFlightOps : o.kind = "write" /\ o.req = event.req
    /\ event.ev = "written" => event.invalidated # {}

(***************************************************************************)
(* C20.  When updateCalendarEvent or deleteCalendarEvent has succeeded,    *)
(* the cache holds no detail entry of that event, under whatever           *)
(* calendarId (given or omitted) getCalendarEvent stored it: no later      *)
(* getCalendarEvent of the event is served a value cached before the       *)
(* write.                                                                  *)
(***************************************************************************)
C20_EventEntriesInvalidated ==
    (event.ev = "written"
        /\ event.req.op \in {"updateCalendarEvent", "deleteCalendarEvent"}) =>
        \A k \in DOMAIN cache :
            cache[k].req.op = "getCalendarEvent" =>
                cache[k].req.eventId # event.req.eventId

(***************************************************************************)
(* C21.  Read/write interleaving: when a read's server call is in flight   *)
(* while a write that invalidates the read's key completes, the value the  *)
(* read obtained before the write is not in the cache once both have       *)
(* finished: every entry holds a value the server gave after the last      *)
(* write that invalidated its key while the read was in flight.            *)
(***************************************************************************)
C21_NoPreWriteEntry ==
    \A k \in DOMAIN cache : cache[k].value >= cache[k].invalidatedAt

(***************************************************************************)
(* C22.  When disconnect() returns, in whatever state it was invoked, no   *)
(* session of the client is open and none can become open without a new   *)
(* connect(): no Client has an open channel and no doConnect is still      *)
(* waiting for a handshake that would open one.                            *)
(***************************************************************************)
C22_NoSessionAfterDisconnect ==
    (event.ev = "return" /\ event.op = "disconnect") =>
        /\ OpenSessions = {}
        /\ \A a \in Attempts :
               ~(attempts[a].st = "handshake" /\ chan[a] = "connecting")

(***************************************************************************)
(* C23.  Every tool request that callTool sends while skipAuthCheck is     *)
(* false goes to a session on which a verify-login preflight has           *)
(* succeeded since the session was established, also when the session was *)
(* established by an auth-exempt call of the same instance.                *)
(***************************************************************************)
C23_RequestsOnVerifiedSession ==
    (event.ev = "sent" /\ event.op = "callTool" /\ ~skipAuthCheck) =>
        /\ attempts[event.sentOn].st = "resolved"
        /\ attempts[event.sentOn].verified # "none"

(***************************************************************************)
(* C24.  Connection failures propagate untouched: when the attempt an      *)
(* invocation of callTool or listTools awaited has failed in the           *)
(* transport or the handshake, the invocation throws exactly the error     *)
(* the transport raised, not an authentication-required error, and has     *)
(* sent no request.                                                        *)
(***************************************************************************)
ConnectionFailed ==
    /\ event.ev = "return"
    /\ event.op \in {"callTool", "listTools"}
    /\ event.promise # 0
    /\ attempts[event.promise].st = "rejected"
    /\ attempts[event.promise].verified = "none"

C24_ConnectionFailureUntouched ==
    /\ \A a \in Attempts :
          (attempts[a].st = "rejected" /\ attempts[a].verified = "none") =>
              attempts[a].err \in {ErrSpawn, ErrClosed, ErrNotConnected}
    /\ ConnectionFailed =>
          /\ event.result = Thrown(attempts[event.promise].err)
          /\ ~IsAuthRequired(event.result)
          /\ event.requests = 0
          /\ event.sentOn = 0
          /\ ~event.answered

\* listTools has thrown the spawn error of the attempt it started
C24_Witness ==
    /\ ConnectionFailed
    /\ event.op = "listTools"
    /\ event.result = Thrown(ErrSpawn)
    /\ event.requests = 0

(***************************************************************************)
(* C25.  A write whose tool call fails leaves the cache as it was: the     *)
(* step in which the write rejects removes no entry and adds none.         *)
(***************************************************************************)
C25_FailedWriteKeepsCache ==
    [][(event'.ev = "failed" /\ event'.kind = "write") =>
          (cache' = cache /\ serverVersion' = serverVersion)]_vars

\* a write has failed while the cache holds an entry its success would remove
C25_Witness ==
    /\ event.ev = "failed"
    /\ event.kind = "write"
    /\ \E k \in DOMAIN cache : InvalidatedBy(event.req, k)

(***************************************************************************)
(* C26.  A read whose server call fails stores nothing: the step in which  *)
(* it rejects leaves the cache as it was, and an identical read invoked    *)
(* right after it, when the key holds no fresh entry, calls the server     *)
(* again.                                                                  *)
(***************************************************************************)
C26_FailedReadStoresNothing ==
    [][/\ (event'.ev = "failed" /\ event'.kind = "read") => cache' = cache
       /\ (/\ event.ev = "failed" /\ event.kind = "read"
           /\ event'.ev \in {"hit", "miss"} /\ event'.req = event.req
           /\ ~Fresh(CacheKeyOf(event.req))) =>
             /\ event'.ev = "miss"
             /\ event'.tool = ToolOf(event.req.op)
             /\ \E o \in BagToSet(ops') :
                   /\ o.kind = "read" /\ o.req = event.req
                   /\ CopiesIn(o, ops') = CopiesIn(o, ops) + 1]_vars

\* a read has failed and its key holds no entry
C26_Witness ==
    /\ event.ev = "failed"
    /\ event.kind = "read"
    /\ CacheKeyOf(event.req) \notin DOMAIN cache
    /\ nOps < MaxReads

(***************************************************************************)
(* C27.  A read served from the cache leaves the session as it was: the    *)
(* step in which a read finds a fresh entry with caching enabled starts no *)
(* connection attempt, no preflight and no tool request, also when no      *)
(* session is open.                                                        *)
(***************************************************************************)
C27_HitLeavesSession ==
    [][\A q \in ThroughRequests :
          (/\ ~cacheDisabled /\ Fresh(CacheKeyOf(q))
           /\ nOps' = nOps + 1 /\ event'.ev \in {"hit", "miss"} /\ event'.req = q) =>
              /\ event'.ev = "hit"
              /\ UNCHANGED connVars
              /\ ops' = ops]_vars

\* a read was served from the cache while no session was open and no attempt
\* was in flight
C27_Witness ==
    /\ event.ev = "hit"
    /\ OpenSessions = {}
    /\ InFlight = {}
    /\ calls = EmptyBag

(***************************************************************************)
(* C28.  Each read stores its result with one fixed TTL out of three       *)
(* tiers, whatever its arguments: one hour for the reference lists (mail   *)
(* folders, calendars), fifteen minutes for single items and date ranges   *)
(* (message detail, event detail, calendar view) and also for the list of  *)
(* calendar events and the list of contacts, five minutes for the other    *)
(* lists (messages, folder messages, tasks, search).                       *)
(***************************************************************************)
Stored == {cache[k] : k \in DOMAIN cache}

\* as stated: five minutes for every list of volatile data, fifteen for single
\* items and ranges, an hour for reference lists
C28_AsStated ==
    \A e \in Stored : e.ttl = TierTTL(Shape(e.req.op))

C28_TTLTiers ==
    /\ \A e \in Stored :
          /\ e.ttl \in {FIVE_MINUTES, FIFTEEN_MINUTES, HOUR}
          /\ e.ttl = IF e.req.op \in {"listCalendarEvents", "listContacts"}
                     THEN FIFTEEN_MINUTES
                     ELSE TierTTL(Shape(e.req.op))
    /\ \A e1, e2 \in Stored : e1.req.op = e2.req.op => e1.ttl = e2.ttl

\* the list of calendar events and the list of contacts are both stored for
\* fifteen minutes
C28_Witness ==
    \E e1, e2 \in Stored :
        /\ e1.req.op = "listCalendarEvents" /\ e1.ttl = FIFTEEN_MINUTES
        /\ e2.req.op = "listContacts" /\ e2.ttl = FIFTEEN_MINUTES

====
